---- MODULE Spec2Model ----
(***************************************************************************)
(* State-machine model of public/snake_Logic.py: the function move_snake   *)
(* and the game loop that calls it once per tick.                          *)
(*                                                                         *)
(* A position is a Python object holding two integers.  Python compares a  *)
(* list with a tuple as unequal whatever they hold, so a position keeps    *)
(* the container type it was built with in the field rep.                  *)
(***************************************************************************)
EXTENDS Integers, Sequences, FiniteSets

VARIABLES snake, food, grid_size, call, result, pc, start_len, eaten

\* start_len is the length of the body the caller started with and eaten the
\* number of adopted steps that returned ate = True
vars == <<snake, food, grid_size, call, result, pc, start_len, eaten>>

\* ---------------------------------------------------------------- bounds
MaxLen == 2      \* longest body a caller starts with
MaxBody == 3     \* longest body a game passes to move_snake
MaxCoord == 1    \* body coordinates range over 0..MaxCoord

\* ---------------------------------------------------------------- values
Reps == {"list", "tuple"}

Directions == {"UP", "DOWN", "LEFT", "RIGHT"}

\* what a caller can pass as direction: the four names and one other string
DirectionArgs == Directions \cup {"NONE"}

Position(x, y, rep) == [x |-> x, y |-> y, rep |-> rep]

Positions == {Position(x, y, r) : x \in 0..MaxCoord, y \in 0..MaxCoord, r \in Reps}

Foods == {Position(x, y, r) : x \in -1..(MaxCoord + 1), y \in -1..(MaxCoord + 1), r \in Reps}

Bodies == UNION {[1..n -> Positions] : n \in 0..MaxLen}

\* the grid holds every body coordinate, or all but the last row and column
GridSizes == {MaxCoord, MaxCoord + 1}

\* the three things a call can produce
None == [kind |-> "None"]

IndexError == [kind |-> "IndexError"]

Moved(body, ate) == [kind |-> "dict", snake |-> body, ate |-> ate]

NoCall == [kind |-> "nocall"]

\* ---------------------------------------------------------------- Python

\* a == b on two position objects
PyEq(a, b) == a.rep = b.rep /\ a.x = b.x /\ a.y = b.y

\* variant: a segment in the same column counts as a hit
ContainsColumn(elem, lst) == \E i \in 1..Len(lst) : elem.x = lst[i].x

\* elem in lst
Contains(elem, lst) == \E i \in 1..Len(lst) : PyEq(elem, lst[i])

\* variant: the argument is compared as it came, without list()
ToListIdentity(p) == p

\* list(p) for a position object p
ToList(p) == [p EXCEPT !.rep = "list"]

\* variant: the last element stays
PopNothing(lst) == lst

\* variant: pop(0), which drops the first element
PopFirst(lst) == SubSeq(lst, 2, Len(lst))

\* lst.pop() leaves the list without its last element
Pop(lst) == SubSeq(lst, 1, Len(lst) - 1)

\* the heap of list objects a call touches; obj names an object
Store(heap, obj, val) ==
  [o \in DOMAIN heap \cup {obj} |-> IF o = obj THEN val ELSE heap[o]]

\* list(snake) and [new_head] + snake_list each build a fresh list object
snake_list_obj == "snake_list"

\* variant: the new body is built in the caller's list
new_snake_in_place == "arg_snake"

new_snake_obj == "new_snake"

head_x_moved(head, direction) ==
  IF direction = "LEFT" THEN head.x - 1
  ELSE IF direction = "RIGHT" THEN head.x + 1
  ELSE head.x

\* variant: UP and DOWN exchanged
head_y_flipped(head, direction) ==
  IF direction = "UP" THEN head.y + 1
  ELSE IF direction = "DOWN" THEN head.y - 1
  ELSE head.y

head_y_moved(head, direction) ==
  IF direction = "UP" THEN head.y - 1
  ELSE IF direction = "DOWN" THEN head.y + 1
  ELSE head.y

\* variant: only the side walls are checked
HitsWallSidesOnly(head_x, head_y, size) == head_x < 0 \/ head_x >= size

\* variant: the far walls are one cell too far
HitsWallOffByOne(head_x, head_y, size) ==
  head_x < 0 \/ head_x > size \/ head_y < 0 \/ head_y > size

HitsWall(head_x, head_y, size) ==
  head_x < 0 \/ head_x >= size \/ head_y < 0 \/ head_y >= size

\* move_snake(snake, direction, food, grid_size): what it returns (ret) and
\* the list objects as the call leaves them (heap)
move_snake(snake_arg, direction, food_arg, size) ==
  LET heap0 == [arg_snake |-> snake_arg, arg_food |-> food_arg]
      heap1 == Store(heap0, snake_list_obj, heap0["arg_snake"])
      snake_list == heap1[snake_list_obj]
  IN  IF snake_list = <<>>
      THEN [ret |-> IndexError, heap |-> heap1]
      ELSE
      LET head_x == head_x_moved(snake_list[1], direction)
          head_y == head_y_moved(snake_list[1], direction)
          new_head == Position(head_x, head_y, "list")
          heap2 == Store(heap1, new_snake_obj, <<new_head>> \o heap1[snake_list_obj])
          heap3 == Store(heap2, new_snake_obj, Pop(heap2[new_snake_obj]))
      IN  IF HitsWall(head_x, head_y, size) THEN [ret |-> None, heap |-> heap1]
          ELSE IF Contains(new_head, heap1[snake_list_obj]) THEN [ret |-> None, heap |-> heap1]
          ELSE IF PyEq(new_head, ToList(food_arg))
               THEN [ret |-> Moved(heap2[new_snake_obj], TRUE), heap |-> heap2]
               ELSE [ret |-> Moved(heap3[new_snake_obj], FALSE), heap |-> heap3]

\* ---------------------------------------------------------------- actions
\* the caller calls move_snake with its current snake, food and grid size; the
\* caller's two objects are afterwards whatever the call left in them
Call(direction) ==
  /\ pc = "ready"
  /\ Len(snake) <= MaxBody
  /\ LET r == move_snake(snake, direction, food, grid_size)
     IN  /\ call' = [kind |-> "call", snake |-> snake, direction |-> direction,
                     food |-> food, grid_size |-> grid_size]
         /\ result' = r.ret
         /\ snake' = r.heap["arg_snake"]
         /\ food' = r.heap["arg_food"]
  /\ pc' = "returned"
  /\ UNCHANGED <<grid_size, start_len, eaten>>

\* the caller takes the returned body as the snake of the next tick and, when
\* the snake ate, places new food at f
Adopt(f) ==
  /\ pc = "returned"
  /\ result.kind = "dict"
  /\ snake' = result.snake
  /\ food' = IF result.ate THEN f ELSE food
  /\ call' = NoCall
  /\ result' = NoCall
  /\ pc' = "ready"
  /\ eaten' = IF result.ate THEN eaten + 1 ELSE eaten
  /\ UNCHANGED <<grid_size, start_len>>

\* one call with any arguments
Init ==
  /\ snake \in Bodies
  /\ food \in Foods
  /\ grid_size \in GridSizes
  /\ call = NoCall
  /\ result = NoCall
  /\ pc = "ready"
  /\ start_len = Len(snake)
  /\ eaten = 0

Next == \E d \in DirectionArgs : Call(d)

Spec == Init /\ [][Next]_vars

\* a game: the snake starts as a simple path of adjacent cells inside the
\* grid, and the loop passes one of the four directions each tick
SameCell(a, b) == a.x = b.x /\ a.y = b.y

Adjacent(a, b) ==
  \/ a.x = b.x /\ (a.y = b.y + 1 \/ b.y = a.y + 1)
  \/ a.y = b.y /\ (a.x = b.x + 1 \/ b.x = a.x + 1)

NoDuplicates(body) ==
  \A i, j \in 1..Len(body) : i # j => ~SameCell(body[i], body[j])

Connected(body) ==
  \A i \in 1..(Len(body) - 1) : Adjacent(body[i], body[i + 1])

InsideGrid(p, size) == p.x >= 0 /\ p.x < size /\ p.y >= 0 /\ p.y < size

InitGame ==
  /\ grid_size \in GridSizes
  /\ snake \in {b \in Bodies : /\ Len(b) >= 1
                                /\ NoDuplicates(b)
                                /\ Connected(b)
                                /\ \A i \in 1..Len(b) : InsideGrid(b[i], grid_size)}
  /\ food \in Foods
  /\ call = NoCall
  /\ result = NoCall
  /\ pc = "ready"
  /\ start_len = Len(snake)
  /\ eaten = 0

NextGame ==
  \/ \E d \in Directions : Call(d)
  \/ \E f \in Foods : Adopt(f)

SpecGame == InitGame /\ [][NextGame]_vars

\* ---------------------------------------------------------------- claims
\* a call has returned and its arguments are on record
Returned == pc = "returned"

StepX(d) == CASE d = "LEFT" -> -1 [] d = "RIGHT" -> 1 [] OTHER -> 0

StepY(d) == CASE d = "UP" -> -1 [] d = "DOWN" -> 1 [] OTHER -> 0

\* the cell the head of the recorded call moves to
NewHeadX == call.snake[1].x + StepX(call.direction)

NewHeadY == call.snake[1].y + StepY(call.direction)

At(p, x, y) == p.x = x /\ p.y = y

OffGrid ==
  NewHeadX < 0 \/ NewHeadX >= call.grid_size \/ NewHeadY < 0 \/ NewHeadY >= call.grid_size

OnBody == \E i \in 1..Len(call.snake) : At(call.snake[i], NewHeadX, NewHeadY)

OnFood == At(call.food, NewHeadX, NewHeadY)

\* C1: a call whose new head is off the grid returns None, wherever the food is
C1_WallCollision ==
  (Returned /\ call.snake # <<>> /\ OffGrid) => result = None

C1_Witness ==
  /\ Returned /\ call.snake # <<>>
  /\ NewHeadX = call.grid_size /\ OnFood
  /\ result = None

\* C2: a call whose new head is on a cell of the pre-move body, the tail cell
\* included, returns None
C2_SelfCollision ==
  (Returned /\ call.snake # <<>> /\ call.direction \in Directions /\ OnBody)
    => result = None

\* C3: a call whose new head is on the food and passes both checks returns
\* ate = TRUE and the new head followed by the whole input body
C3_Growth ==
  /\ (Returned /\ call.snake # <<>> /\ ~OffGrid /\ ~OnBody /\ OnFood)
        => result = Moved(<<Position(NewHeadX, NewHeadY, "list")>> \o call.snake, TRUE)
  /\ (Returned /\ result.kind = "dict" /\ OnFood)
        => /\ result.ate
           /\ Len(result.snake) = Len(call.snake) + 1
           /\ \A i \in 1..Len(call.snake) : result.snake[i + 1] = call.snake[i]

C3_Witness ==
  /\ Returned /\ Len(call.snake) >= 2 /\ OnFood /\ call.food.rep = "tuple"
  /\ result.kind = "dict" /\ result.ate
  /\ result.snake[Len(result.snake)] = call.snake[Len(call.snake)]

\* C4: a call whose new head is in the grid, off the pre-move body and off the
\* food returns ate = FALSE and the new head followed by the input body
\* without its last element
C4_OrdinaryMove ==
  (Returned /\ call.snake # <<>> /\ ~OffGrid /\ ~OnBody /\ ~OnFood)
    => /\ result = Moved(<<Position(NewHeadX, NewHeadY, "list")>>
                           \o SubSeq(call.snake, 1, Len(call.snake) - 1), FALSE)
       /\ Len(result.snake) = Len(call.snake)
       /\ \A i \in 1..(Len(call.snake) - 1) : result.snake[i + 1] = call.snake[i]

C4_Witness ==
  /\ Returned /\ Len(call.snake) >= 2 /\ ~OffGrid /\ ~OnBody /\ ~OnFood
  /\ result.kind = "dict" /\ ~result.ate
  /\ result.snake[2] = call.snake[1]
  /\ call.snake[1] # call.snake[2]

\* C5: in every returned body the head is the old head moved one cell in the
\* direction passed, and the old head follows it
C5_HeadAdvance ==
  (Returned /\ result.kind = "dict" /\ call.direction \in Directions)
    => /\ call.direction = "UP" =>
            At(result.snake[1], call.snake[1].x, call.snake[1].y - 1)
       /\ call.direction = "DOWN" =>
            At(result.snake[1], call.snake[1].x, call.snake[1].y + 1)
       /\ call.direction = "LEFT" =>
            At(result.snake[1], call.snake[1].x - 1, call.snake[1].y)
       /\ call.direction = "RIGHT" =>
            At(result.snake[1], call.snake[1].x + 1, call.snake[1].y)
       /\ Len(result.snake) >= 2 => result.snake[2] = call.snake[1]

C5_Witness ==
  /\ Returned /\ result.kind = "dict" /\ call.direction = "UP"
  /\ At(result.snake[1], call.snake[1].x, call.snake[1].y - 1)
  /\ Len(result.snake) >= 2

\* C6: in a game every returned body has no two segments on one cell and its
\* consecutive segments are one cell apart
C6_BodyShape ==
  (Returned /\ result.kind = "dict")
    => NoDuplicates(result.snake) /\ Connected(result.snake)

\* C7: after the call the caller's snake and food are what was passed in
C7_NoMutation ==
  Returned => snake = call.snake /\ food = call.food

C7_Witness ==
  /\ Returned /\ Len(call.snake) >= 2
  /\ result.kind = "dict" /\ ~result.ate
  /\ Len(result.snake) = Len(call.snake)
  /\ snake = call.snake

\* C8: a call with a non-empty body and one of the four directions returns
\* None or a dict with a body and a flag, never an error, and None only when
\* the new head is off the grid or on the pre-move body
C8_OnlyCollisionFails ==
  (Returned /\ call.snake # <<>> /\ call.direction \in Directions)
    => /\ \/ result = None
          \/ /\ result.kind = "dict"
             /\ DOMAIN result = {"kind", "snake", "ate"}
             /\ result.ate \in BOOLEAN
             /\ Len(result.snake) >= 1
       /\ result = None => (OffGrid \/ OnBody)

C8_Witness ==
  /\ Returned /\ call.snake # <<>> /\ call.direction \in Directions
  /\ result = None /\ ~OffGrid /\ OnBody

\* C10: ate = TRUE only when the new head is in the grid and off the pre-move
\* body; food on the body or off the grid never gives a growth step
C10_ChecksBeforeFood ==
  (Returned /\ result.kind = "dict" /\ result.ate /\ call.direction \in Directions)
    => (~OffGrid /\ ~OnBody)

\* C11: whether the self check fires depends on the coordinates of the
\* segments only, not on the container a segment is held in: for a new head
\* inside the grid the call returns None exactly when a segment is on its cell
C11_EqualityByCoordinates ==
  (Returned /\ call.snake # <<>> /\ call.direction \in Directions /\ ~OffGrid)
    => (result = None <=> OnBody)

\* C12: in a game every segment of the caller's body and of every returned
\* body is inside the grid
C12_InGrid ==
  /\ \A i \in 1..Len(snake) : InsideGrid(snake[i], grid_size)
  /\ (Returned /\ result.kind = "dict")
        => \A i \in 1..Len(result.snake) : InsideGrid(result.snake[i], grid_size)

C12_Witness ==
  /\ Returned /\ eaten >= 1 /\ result.kind = "dict"
  /\ Len(result.snake) >= 3
  /\ result.snake[1].x = grid_size - 1
  /\ \A i \in 1..Len(result.snake) : InsideGrid(result.snake[i], grid_size)

\* C13: with a body of two or more segments, the direction that points from
\* the head to the second segment returns None
C13_ReversalCollides ==
  (/\ Returned /\ Len(call.snake) >= 2 /\ call.direction \in Directions
   /\ Adjacent(call.snake[1], call.snake[2])
   /\ At(call.snake[2], NewHeadX, NewHeadY))
    => result = None

\* C14: a direction other than the four leaves the head where it is, the call
\* then returns None for a head inside the grid, and no returned body has its
\* head on the cell of the old head
C14_UnrecognisedDirection ==
  /\ (/\ Returned /\ call.snake # <<>> /\ call.direction \notin Directions
      /\ InsideGrid(call.snake[1], call.grid_size))
       => result = None
  /\ (Returned /\ result.kind = "dict")
       => ~SameCell(result.snake[1], call.snake[1])

\* C15: in a game the body is never empty, its length is the starting length
\* plus the number of steps that ate, and a returned body is as long as the
\* body passed in, or one longer when the step ate
C15_GrowthAccounting ==
  /\ Len(snake) >= 1
  /\ Len(snake) = start_len + eaten
  /\ (Returned /\ result.kind = "dict")
        => /\ Len(result.snake) = Len(call.snake) + (IF result.ate THEN 1 ELSE 0)
           /\ Len(result.snake) >= Len(call.snake)

C15_Witness ==
  /\ Returned /\ eaten >= 1 /\ Len(snake) = start_len + eaten
  /\ result.kind = "dict" /\ ~result.ate
  /\ Len(result.snake) = Len(snake)
====
